---- MODULE Spec2Model ----
(***************************************************************************)
(* CT-HYB impurity solver: the walker HybridizationSimulation              *)
(* (src/src/impurity.ipp) and CorrelationWorm::get_operators               *)
(* (src/src/worm.ipp) as a state machine.                                  *)
(*                                                                         *)
(* Representation of real numbers:                                         *)
(*   - times (TIME_LIMIT, THERMALIZATION_TIME, thermalization_time) are    *)
(*     integers in units of 1/20 second, so that 0.25*T and 0.9*T are      *)
(*     exact; time(NULL) - start_time is a whole number of seconds;        *)
(*   - configuration-space weights are kept as their natural logarithm in  *)
(*     units of the smallest modification factor (weight 1.0 is 0).        *)
(***************************************************************************)
EXTENDS Integers, Sequences, FiniteSets, TLC

\* ------------------------------------------------------------------ bounds
MaxSweeps == 2
MaxOrder == 2
MaxTime == 2
MaxWindow == 2
MaxNumTimes == 2
MaxWormTime == 2
MaxVisits == 6
MaxSteps == 3

\* ----------------------------------------------------------------- helpers
Max(a, b) == IF a >= b THEN a ELSE b

Min(a, b) == IF a <= b THEN a ELSE b

\* ceil(a / b) for a >= 0, b > 0
CeilDiv(a, b) == (a + b - 1) \div b

Range(s) == {s[i] : i \in 1..Len(s)}

RECURSIVE SeqSum(_)
SeqSum(s) == IF s = <<>> THEN 0 ELSE Head(s) + SeqSum(Tail(s))

RECURSIVE SeqMin(_)
SeqMin(s) == IF Len(s) = 1 THEN s[1] ELSE Min(Head(s), SeqMin(Tail(s)))

IsPrefix(s, t) == Len(s) <= Len(t) /\ \A i \in 1..Len(s) : s[i] = t[i]

RECURSIVE Repeat(_, _)
Repeat(s, n) == IF n <= 0 THEN <<>> ELSE s \o Repeat(s, n - 1)

\* the real number m * exp(e), e in the unit of the weight logarithms; zero
\* has exponent 0
Real(m, e) == [m |-> m, e |-> IF m = 0 THEN 0 ELSE e]

\* --------------------------------------------------------------- variables
VARIABLES
  par,                          \* parameters read by the constructor
  walker,                       \* identity of the walker object alive in the process
  ctor_error,                   \* exception thrown by the constructor ("none" if it returned)
  thermalization_time,          \* units of 1/20 s
  elapsed,                      \* last value read of time(NULL) - start_time, seconds
  N_win_standard,
  sweeps,
  thermalized,
  mc_config,                    \* [pert_order, space]
  sliding_window,               \* [n_window, position_right_edge, direction]
  min_pert_order_hist,          \* function-local static list of update_MC_parameters
  pert_order_recorder,          \* number of samples pushed
  single_op_shift_updater,      \* [n_update_parameters, finalized]
  flat_histogram,               \* *p_flat_histogram_config_space
  config_space_extra_weight,
  worm_space_extra_weight_map,
  num_steps_in_config_space,
  g_meas_legendre,              \* number of samples held
  measurements,                 \* names of the observables that received a sample
  global_shift_acc_rate,        \* number of samples held
  swap_acc_rate,                \* number of samples held, per swap update
  finalized,                    \* updaters on which finalize_learning has been called
  warned,                       \* warnings printed
  pc,                           \* position of the walker's control
  loc,                          \* local variables of the running member functions
  iter_log,                     \* updater calls of the current move iteration, in order
  sweep_calls,                  \* updater calls of the current sweep, counted
  gate_elapsed,                 \* elapsed time read by the last thermalization gate
  NDEBUG,                       \* whether the build defines NDEBUG
  unchecked_updates,            \* an updater ran and no sanity check was executed since
  worm,                         \* a CorrelationWorm: [times_, flavors_]
  worm_ops,                     \* the operators its get_operators returned last
  meas_log,                     \* what was counted since, and reported by, the last measure()
  ins_rem_updater,              \* ranks of the off-diagonal insertion/removal updaters
  ins_rem_diagonal_updater,     \* ranks of the diagonal insertion/removal updaters
  corrupted,                    \* the incremental det/trace has drifted from the from-scratch value
  other_run                     \* a second execution of the walker on the same random numbers

vars == << par, walker, ctor_error, thermalization_time, elapsed, N_win_standard,
           sweeps, thermalized, mc_config, sliding_window, min_pert_order_hist,
           pert_order_recorder, single_op_shift_updater, flat_histogram,
           config_space_extra_weight, worm_space_extra_weight_map,
           num_steps_in_config_space, g_meas_legendre, measurements,
           global_shift_acc_rate, swap_acc_rate, finalized, warned, pc, loc,
           iter_log, sweep_calls, gate_elapsed, NDEBUG, unchecked_updates,
           worm, worm_ops, meas_log, ins_rem_updater, ins_rem_diagonal_updater,
           corrupted, other_run >>

\* groups used by UNCHANGED
wormVars == << worm, worm_ops >>

\* what no member function of the walker writes
ctorVars == << par, walker, ctor_error, thermalization_time, NDEBUG, wormVars,
              ins_rem_updater, ins_rem_diagonal_updater, corrupted, other_run >>

adaptVars == << N_win_standard, min_pert_order_hist, single_op_shift_updater,
                flat_histogram, config_space_extra_weight,
                worm_space_extra_weight_map >>

measVars == << num_steps_in_config_space, g_meas_legendre, measurements,
               global_shift_acc_rate, swap_acc_rate, finalized, warned >>

\* ------------------------------------------------------- configuration spaces
Z_FUNCTION == "Z_FUNCTION"

G1 == "G1"

Two_time_G2 == "Two_time_G2"

Equal_time_G1 == "Equal_time_G1"

Equal_time_G2 == "Equal_time_G2"

ITIME_LEFT == "ITIME_LEFT"

ITIME_RIGHT == "ITIME_RIGHT"

\* index of a space: 0 for Z_FUNCTION, w + 1 for worm_types[w] (0-based w)
get_config_space_position(worm_types, space) ==
  IF space = Z_FUNCTION THEN 0
  ELSE CHOOSE i \in 1..Len(worm_types) : worm_types[i] = space

\* ------------------------------------------------------------ sliding window
\* set_window_size(n, ops, position = 0, direction = ITIME_LEFT)
set_window_size(n, position, direction) ==
  [n_window |-> n, position_right_edge |-> position, direction |-> direction]

\* The window is two of 2*n_window segments wide; its right edge runs from 0 up
\* to 2*n_window - 2 and back, the direction turning at either end.
move_window_to_next_position(sw) ==
  IF sw.n_window = 1 THEN sw
  ELSE LET dir == IF sw.position_right_edge = 0 THEN ITIME_LEFT
                  ELSE IF sw.position_right_edge = 2 * sw.n_window - 2 THEN ITIME_RIGHT
                  ELSE sw.direction
       IN [sw EXCEPT !.direction = dir,
                     !.position_right_edge = IF dir = ITIME_LEFT THEN @ + 1 ELSE @ - 1]

\* ------------------------------------------------------ flat-histogram reweighter
FlatLambdaInit == 4

FlatLambdaMin == 2

NewFlatHistogram(present, n) ==
  [present |-> present,
   h |-> [i \in 1..n |-> 0],
   h_flat |-> [i \in 1..n |-> 0],
   lambda |-> FlatLambdaInit,
   lnw |-> [i \in 1..n |-> 0],
   done |-> FALSE]

FlatConverged(fh) == fh.lambda < FlatLambdaMin

\* bug variant: the weight of the visited bin keeps growing after convergence
FlatMeasureNoFreeze(fh, pos) ==
  IF fh.done
    THEN [fh EXCEPT !.h[pos + 1] = @ + 1]
    ELSE [fh EXCEPT !.h[pos + 1] = @ + 1, !.lnw[pos + 1] = @ + fh.lambda]

\* measure(pos): one visit of bin pos (0-based); ln w[pos] += lambda until the
\* procedure has converged or learning has been finished
FlatMeasure(fh, pos) ==
  IF fh.done \/ FlatConverged(fh)
    THEN [fh EXCEPT !.h[pos + 1] = @ + 1]
    ELSE [fh EXCEPT !.h[pos + 1] = @ + 1, !.lnw[pos + 1] = @ + fh.lambda]

\* bug variant: any visited histogram counts as flat
FlatEnoughAlways(fh) == TRUE

\* flat_enough(): min(h) >= f * mean(h) with f = 1/2
FlatEnough(fh) == 2 * Len(fh.h) * SeqMin(fh.h) >= SeqSum(fh.h)

\* update_lambda(): halve the modification factor and reset the histogram;
\* h_flat keeps the histogram that was found flat
FlatUpdateLambda(fh) ==
  [fh EXCEPT !.lambda = @ \div 2, !.h_flat = fh.h,
             !.h = [i \in 1..Len(fh.h) |-> 0]]

\* weight_ratio(i, j) = w[i] / w[j], as a logarithm
FlatWeightRatio(fh, i, j) == fh.lnw[i + 1] - fh.lnw[j + 1]

FlatFinishLearning(fh) == [fh EXCEPT !.done = TRUE]

\* ----------------------------------------------------------------- constructor
\* the parameters a run is started with (times in units of 1/20 s); runs with
\* worm sampling are kept to one flavor, single-pair updates and one window
ParamsNoWorm ==
  [ TIME_LIMIT : {80},
    THERMALIZATION_TIME : {-20, 0},
    SITES : {1},
    SPINS : {1, 2},
    N_MEAS : {1, 2},
    N_GLOBAL_UPDATES : {1, 2},
    MULTI_PAIR_INS_REM : {1, 2},
    SLIDING_WINDOW_MAX : 1..MaxWindow,
    N_SWAP : {0, 1},
    worm_types : { <<>> } ]

ParamsWorm ==
  [ TIME_LIMIT : {80},
    THERMALIZATION_TIME : {-20},
    SITES : {1},
    SPINS : {1},
    N_MEAS : {1},
    N_GLOBAL_UPDATES : {1, 2},
    MULTI_PAIR_INS_REM : {1},
    SLIDING_WINDOW_MAX : {1},
    N_SWAP : {1},
    worm_types : { <<G1>> } ]

ParamChoices == ParamsNoWorm \cup ParamsWorm

FLAVORS == par.SPINS * par.SITES

\* THERMALIZATION_TIME < 0 selects 25 % of TIME_LIMIT (read as a long)
ThermalizationTime(p) ==
  IF p.THERMALIZATION_TIME < 0
    THEN (25 * ((p.TIME_LIMIT \div 20) * 20)) \div 100
    ELSE p.THERMALIZATION_TIME

\* bug variant: the rank of the multi-pair updates is not checked
CtorErrorNoRankCheck(p) ==
  IF 10 * ThermalizationTime(p) > 9 * p.TIME_LIMIT THEN "time_limit" ELSE "none"

CtorError(p) ==
  IF 10 * ThermalizationTime(p) > 9 * p.TIME_LIMIT THEN "time_limit"
  ELSE IF p.MULTI_PAIR_INS_REM < 1 THEN "rank"
  ELSE "none"

\* lines 142-155: one updater per rank k = 1..MULTI_PAIR_INS_REM, pushed after
\* both checks have passed
InsRemUpdaters(p) ==
  IF CtorError(p) = "none" THEN [k \in 1..p.MULTI_PAIR_INS_REM |-> k] ELSE <<>>

\* keys of specialized_updaters created for the configured worm spaces
SpecializedUpdaters(worm_types) ==
  (IF G1 \in Range(worm_types) THEN {"G1_ins_rem_hyb", "G1_shifter_hyb"} ELSE {})
  \cup (IF {Equal_time_G1, Two_time_G2} \subseteq Range(worm_types)
          THEN {"Connect_Equal_time_G1_and_Two_time_G2"} ELSE {})

NoLocals ==
  [imeas |-> 0, rank_ins_rem |-> 0, current_n_window |-> 0, num_move |-> 0,
   move |-> 0, update |-> 0, stage |-> 0, ret |-> "none",
   n_sliding_window_bak |-> 0, itry |-> 0, execute_ordering |-> <<>>,
   i_worm |-> 0]

\* nothing counted and nothing reported yet, for n configuration spaces
NoMeasLog(n) ==
  [calls |-> [i \in 1..n |-> 0], therm_sweeps |-> 0, n_measure |-> 0,
   calls_reported |-> [i \in 1..n |-> 0], therm_sweeps_reported |-> 0,
   num_steps |-> [i \in 1..n |-> 0],
   volume |-> [i \in 1..n |-> Real(0, 0)]]

\* the second execution before its first call of update_MC_parameters
NoOtherRun == [n_update_parameters |-> 0, elapsed |-> 0, thermalized |-> FALSE]

NoCalls == [off |-> 0, diag |-> 0, pair |-> 0, shift |-> 0, worm |-> 0, advance |-> 0]

\* the member initialisers and the body of HybridizationSimulation(p, rank);
\* the static history of update_MC_parameters is not a member and is left alone
Construct(p, id) ==
  /\ par' = p
  /\ walker' = id
  /\ ctor_error' = CtorError(p)
  /\ thermalization_time' = ThermalizationTime(p)
  /\ elapsed' = 0
  /\ N_win_standard' = 1
  /\ sweeps' = 0
  /\ thermalized' = FALSE
  /\ mc_config' = [pert_order |-> 0, M |-> 0, space |-> Z_FUNCTION]
  /\ sliding_window' = set_window_size(1, 0, ITIME_LEFT)
  /\ pert_order_recorder' = 0
  /\ single_op_shift_updater' = [n_update_parameters |-> 0, finalized |-> FALSE]
  /\ flat_histogram' = NewFlatHistogram(p.worm_types # <<>>, Len(p.worm_types) + 1)
  /\ config_space_extra_weight' = [i \in 1..(Len(p.worm_types) + 1) |-> 0]
  /\ worm_space_extra_weight_map' = [s \in Range(p.worm_types) |-> 0]
  /\ num_steps_in_config_space' = [i \in 1..(Len(p.worm_types) + 1) |-> 0]
  /\ g_meas_legendre' = 0
  /\ measurements' = {}
  /\ global_shift_acc_rate' = 0
  /\ swap_acc_rate' = [i \in 1..p.N_SWAP |-> 0]
  /\ finalized' = {}
  /\ warned' = {}
  /\ pc' = IF CtorError(p) = "none" THEN "idle" ELSE "no_walker"
  /\ loc' = NoLocals
  /\ iter_log' = <<>>
  /\ sweep_calls' = NoCalls
  /\ gate_elapsed' = -1
  /\ NDEBUG' = NDEBUG
  /\ UNCHANGED wormVars
  /\ unchecked_updates' = FALSE
  /\ meas_log' = NoMeasLog(Len(p.worm_types) + 1)
  /\ ins_rem_updater' = InsRemUpdaters(p)
  /\ ins_rem_diagonal_updater' = InsRemUpdaters(p)
  /\ corrupted' = FALSE
  /\ other_run' = NoOtherRun

InitWith(p) ==
    /\ par = p
    /\ walker = 1
    /\ ctor_error = CtorError(p)
    /\ thermalization_time = ThermalizationTime(p)
    /\ elapsed = 0
    /\ N_win_standard = 1
    /\ sweeps = 0
    /\ thermalized = FALSE
    /\ mc_config = [pert_order |-> 0, M |-> 0, space |-> Z_FUNCTION]
    /\ sliding_window = set_window_size(1, 0, ITIME_LEFT)
    /\ min_pert_order_hist = <<>>
    /\ pert_order_recorder = 0
    /\ single_op_shift_updater = [n_update_parameters |-> 0, finalized |-> FALSE]
    /\ flat_histogram = NewFlatHistogram(p.worm_types # <<>>, Len(p.worm_types) + 1)
    /\ config_space_extra_weight = [i \in 1..(Len(p.worm_types) + 1) |-> 0]
    /\ worm_space_extra_weight_map = [s \in Range(p.worm_types) |-> 0]
    /\ num_steps_in_config_space = [i \in 1..(Len(p.worm_types) + 1) |-> 0]
    /\ g_meas_legendre = 0
    /\ measurements = {}
    /\ global_shift_acc_rate = 0
    /\ swap_acc_rate = [i \in 1..p.N_SWAP |-> 0]
    /\ finalized = {}
    /\ warned = {}
    /\ pc = IF CtorError(p) = "none" THEN "idle" ELSE "no_walker"
    /\ loc = NoLocals
    /\ iter_log = <<>>
    /\ sweep_calls = NoCalls
    /\ gate_elapsed = -1
    /\ NDEBUG \in BOOLEAN
    /\ unchecked_updates = FALSE
    /\ worm = [times_ |-> <<>>, flavors_ |-> <<>>]
    /\ worm_ops = <<>>
    /\ meas_log = NoMeasLog(Len(p.worm_types) + 1)
    /\ ins_rem_updater = InsRemUpdaters(p)
    /\ ins_rem_diagonal_updater = InsRemUpdaters(p)
    /\ corrupted = FALSE
    /\ other_run = NoOtherRun

Init == \E p \in ParamChoices : InitWith(p)

\* --------------------------------------------------------------- sanity_check()
\* lines 754-759: the body is compiled only without NDEBUG; the result tells
\* whether updates are still unchecked after the call
sanity_check(ndebug, unchecked) == IF ndebug THEN unchecked ELSE FALSE

\* where control goes after a sanity_check() call that would go on to next_pc:
\* the body, compiled without NDEBUG, aborts on a drifted configuration
SanityCheckThen(next_pc) == IF ~NDEBUG /\ corrupted THEN "aborted" ELSE next_pc

\* ------------------------------------------------------------------- update()
\* update(): entry of the batch loop (line 189)
UpdateEnter ==
  /\ pc = "idle"
  /\ sweeps + par.N_MEAS <= MaxSweeps
  /\ pc' = "loop"
  /\ loc' = [loc EXCEPT !.imeas = 0]
  /\ UNCHANGED << ctorVars, elapsed, sweeps, thermalized, mc_config, sliding_window,
                  pert_order_recorder, adaptVars, measVars, iter_log, sweep_calls,
                  gate_elapsed, unchecked_updates,
                  meas_log >>

\* update(): the loop condition fails and update() returns (lines 189, 233)
UpdateReturn ==
  /\ pc = "loop"
  /\ loc.imeas >= par.N_MEAS
  /\ pc' = "returned"
  /\ UNCHANGED << ctorVars, elapsed, sweeps, thermalized, mc_config, sliding_window,
                  pert_order_recorder, adaptVars, measVars, loc, iter_log,
                  sweep_calls, gate_elapsed, unchecked_updates,
                  meas_log >>

\* ------------------------------------------------------------- do_one_sweep()
CurrentNWindow(n_win_standard, rank_ins_rem) == Max(n_win_standard \div rank_ins_rem, 1)

\* bug variant: one move too many
NumMoveOffByOne(current_n_window) == Max(4 * current_n_window - 3, 1)

NumMove(current_n_window) == Max(4 * current_n_window - 4, 1)

\* bug variant: the window is never rebuilt
ResizedWindowNever(sw, current_n_window) == sw

\* lines 470-472: the window is rebuilt only when its size changes
ResizedWindow(sw, current_n_window) ==
  IF current_n_window # sw.n_window
    THEN set_window_size(current_n_window, 0, ITIME_LEFT)
    ELSE sw

\* lines 190-192 and 464-475: a sweep starts
SweepBegin ==
  /\ pc = "loop"
  /\ loc.imeas < par.N_MEAS
  /\ sweeps' = sweeps + 1
  /\ pert_order_recorder' = pert_order_recorder + 1
  /\ \E rank \in 1..par.MULTI_PAIR_INS_REM :
       LET n == CurrentNWindow(N_win_standard, rank) IN
       /\ sliding_window' = ResizedWindow(sliding_window, n)
       /\ loc' = [loc EXCEPT !.rank_ins_rem = rank, !.current_n_window = n,
                             !.num_move = NumMove(n), !.move = 0, !.update = 0,
                             !.stage = 0, !.ret = "sweep"]
  /\ pc' = "local"
  /\ iter_log' = <<>>
  /\ sweep_calls' = NoCalls
  /\ UNCHANGED << ctorVars, elapsed, thermalized, mc_config, adaptVars, measVars,
                  gate_elapsed, unchecked_updates,
                  meas_log >>

\* bug variant: the diagonal updater runs first
LocalUpdatersSwapped == << "diag", "off", "pair" >>

\* order of the three updaters applied per flavor (lines 480-484)
LocalUpdaters == << "off", "diag", "pair" >>

\* bug variant: an accepted update changes the operator string and leaves M
AcceptedOperatorsOnly(cfg, order, space) ==
  [cfg EXCEPT !.pert_order = order, !.space = space]

\* the configuration after an accepted update: the operator string and the
\* matrix M change together, to the same number of hybridized pairs
Accepted(cfg, order, space) ==
  [pert_order |-> order, M |-> order, space |-> space]

\* an insertion/removal updater of rank k: k pairs inserted, k removed, or rejected
InsRemOutcomes(order, k) ==
  {order} \cup (IF order + k <= MaxOrder THEN {order + k} ELSE {})
          \cup (IF order >= k THEN {order - k} ELSE {})

\* one call of ins_rem_updater, ins_rem_diagonal_updater or
\* operator_pair_flavor_updater (lines 479-486)
LocalUpdate ==
  /\ pc = "local"
  /\ LET name == LocalUpdaters[loc.stage + 1] IN
     /\ IF name = "pair"
          THEN UNCHANGED mc_config
          ELSE \E o \in InsRemOutcomes(mc_config.pert_order, loc.rank_ins_rem) :
                 mc_config' = Accepted(mc_config, o, mc_config.space)
     /\ iter_log' = IF loc.update = 0 /\ loc.stage = 0 THEN << name >>
                    ELSE Append(iter_log, name)
     /\ sweep_calls' = [sweep_calls EXCEPT ![name] = @ + 1]
  /\ IF loc.stage + 1 < Len(LocalUpdaters)
       THEN /\ loc' = [loc EXCEPT !.stage = @ + 1]
            /\ pc' = SanityCheckThen("local")
       ELSE IF loc.update + 1 < FLAVORS
         THEN /\ loc' = [loc EXCEPT !.stage = 0, !.update = @ + 1]
              /\ pc' = "local"
         ELSE /\ loc' = [loc EXCEPT !.stage = 0, !.update = 0]
              /\ pc' = "shift"
  /\ unchecked_updates' = IF LocalUpdaters[loc.stage + 1] = "pair" THEN TRUE
                           ELSE sanity_check(NDEBUG, TRUE)
  /\ UNCHANGED << ctorVars, elapsed, sweeps, thermalized, sliding_window,
                  pert_order_recorder, adaptVars, measVars, gate_elapsed,
                  meas_log >>

\* bug variant: the rank is left out
NumShiftNoRank(flavors, rank_ins_rem) == flavors

\* number of single-operator shifts per move (line 489)
NumShift(flavors, rank_ins_rem) == flavors * rank_ins_rem

\* one call of single_op_shift_updater.update (lines 489-491)
SingleOpShift ==
  /\ pc = "shift"
  /\ iter_log' = Append(iter_log, "shift")
  /\ sweep_calls' = [sweep_calls EXCEPT !.shift = @ + 1]
  /\ IF loc.update + 1 < NumShift(FLAVORS, loc.rank_ins_rem)
       THEN /\ loc' = [loc EXCEPT !.update = @ + 1]
            /\ pc' = "shift"
       ELSE /\ loc' = [loc EXCEPT !.update = 0]
            /\ pc' = "transition"
  /\ unchecked_updates' = TRUE
  /\ UNCHANGED << ctorVars, elapsed, sweeps, thermalized, mc_config, sliding_window,
                  pert_order_recorder, adaptVars, measVars, gate_elapsed,
                  meas_log >>

\* ---------------------------------------- transition_between_config_spaces()
\* bug variant: the reweighter is updated and the two weight stores are left
\* as they were
AdjustWormSpaceWeightStale(fh, csw, wmap, is_therm, space) ==
  IF ~fh.present \/ is_therm
    THEN [fh |-> fh, csw |-> csw, wmap |-> wmap]
    ELSE LET m == FlatMeasure(fh, get_config_space_position(par.worm_types, space))
         IN [fh |-> IF FlatEnough(m) THEN FlatUpdateLambda(m) ELSE m,
             csw |-> csw, wmap |-> wmap]

\* bug variant: every visit is recorded in the bin of Z space
AdjustWormSpaceWeightZBin(fh, csw, wmap, is_therm, space) ==
  IF ~fh.present \/ is_therm
    THEN [fh |-> fh, csw |-> csw, wmap |-> wmap]
    ELSE LET m == FlatMeasure(fh, 0)
             f == IF FlatEnough(m) THEN FlatUpdateLambda(m) ELSE m
         IN [fh |-> f,
             csw |-> [i \in 1..Len(csw) |->
                        IF i = 1 THEN 0 ELSE FlatWeightRatio(f, i - 1, 0)],
             wmap |-> [s \in DOMAIN wmap |->
                        FlatWeightRatio(f, get_config_space_position(par.worm_types, s), 0)]]

\* bug variant: the reweighter goes on learning after thermalization
AdjustWormSpaceWeightUngated(fh, csw, wmap, is_therm, space) ==
  IF ~fh.present
    THEN [fh |-> fh, csw |-> csw, wmap |-> wmap]
    ELSE LET m == FlatMeasure(fh, get_config_space_position(par.worm_types, space))
             f == IF FlatEnough(m) THEN FlatUpdateLambda(m) ELSE m
         IN [fh |-> f,
             csw |-> [i \in 1..Len(csw) |->
                        IF i = 1 THEN 0 ELSE FlatWeightRatio(f, i - 1, 0)],
             wmap |-> [s \in DOMAIN wmap |->
                        FlatWeightRatio(f, get_config_space_position(par.worm_types, s), 0)]]

\* adjust_worm_space_weight() (lines 763-786), as a function of the members it
\* reads; the result holds the three members it writes
AdjustWormSpaceWeight(fh, csw, wmap, is_therm, space) ==
  IF ~fh.present \/ is_therm
    THEN [fh |-> fh, csw |-> csw, wmap |-> wmap]
    ELSE LET m == FlatMeasure(fh, get_config_space_position(par.worm_types, space))
             f == IF FlatEnough(m) THEN FlatUpdateLambda(m) ELSE m
         IN [fh |-> f,
             csw |-> [i \in 1..Len(csw) |->
                        IF i = 1 THEN 0 ELSE FlatWeightRatio(f, i - 1, 0)],
             wmap |-> [s \in DOMAIN wmap |->
                        FlatWeightRatio(f, get_config_space_position(par.worm_types, s), 0)]]

ApplyAdjust(space) ==
  LET r == AdjustWormSpaceWeight(flat_histogram, config_space_extra_weight,
                                 worm_space_extra_weight_map, thermalized, space)
  IN /\ flat_histogram' = r.fh
     /\ config_space_extra_weight' = r.csw
     /\ worm_space_extra_weight_map' = r.wmap

\* the call of transition_between_config_spaces (lines 493, 558) and its early
\* return (lines 504-506)
TransitionEnter ==
  /\ pc = "transition"
  /\ IF loc.ret = "sweep"
       THEN /\ iter_log' = Append(iter_log, "worm")
            /\ sweep_calls' = [sweep_calls EXCEPT !.worm = @ + 1]
       ELSE UNCHANGED << iter_log, sweep_calls >>
  /\ IF par.worm_types = <<>>
       THEN pc' = IF loc.ret = "sweep" THEN "advance" ELSE "global_swap"
       ELSE pc' = "worm"
  /\ loc' = [loc EXCEPT !.update = 0, !.stage = 0]
  /\ UNCHANGED << ctorVars, elapsed, sweeps, thermalized, mc_config, sliding_window,
                  pert_order_recorder, adaptVars, measVars, gate_elapsed, unchecked_updates,
                  meas_log >>

\* the worm updaters of one loop iteration, in the order of lines 510-548
WormStages == << "ins_rem", "G1_ins_rem_hyb", "Connect_Equal_time_G1_and_Two_time_G2",
                 "G1_shifter_hyb", "mover" >>

\* whether the updater of a stage is applied in the current space
WormStageApplies(name, space) ==
  CASE name = "ins_rem" -> TRUE
    [] name = "G1_ins_rem_hyb" -> space \in {Z_FUNCTION, G1}
    [] name = "Connect_Equal_time_G1_and_Two_time_G2" ->
         /\ name \in SpecializedUpdaters(par.worm_types)
         /\ space \in {Equal_time_G1, Two_time_G2}
    [] name = "G1_shifter_hyb" ->
         /\ name \in SpecializedUpdaters(par.worm_types)
         /\ space = G1
    [] name = "mover" -> get_config_space_position(par.worm_types, space) > 0

\* bug variant: the insertion/remover is drawn at random in every space
IWormAlwaysRandom(worm_types, space) == 0..(Len(worm_types) - 1)

\* lines 510-516: the index of the worm insertion/remover that is applied
IWorm(worm_types, space) ==
  IF space = Z_FUNCTION
    THEN 0..(Len(worm_types) - 1)
    ELSE {get_config_space_position(worm_types, space) - 1}

\* the configurations a worm updater can leave behind (accepted or rejected);
\* the insertion/remover i_worm connects Z_FUNCTION and worm_types[i_worm]
WormOutcomes(name, cfg, i_worm) ==
  {cfg} \cup
  CASE name = "ins_rem" ->
         IF cfg.space = Z_FUNCTION
           THEN {[cfg EXCEPT !.space = par.worm_types[i_worm + 1]]}
           ELSE IF cfg.space = par.worm_types[i_worm + 1]
             THEN {[cfg EXCEPT !.space = Z_FUNCTION]}
             ELSE {}
    [] name = "G1_ins_rem_hyb" ->
         IF cfg.space = Z_FUNCTION
           THEN (IF cfg.pert_order >= 1
                   THEN {Accepted(cfg, cfg.pert_order - 1, G1)} ELSE {})
           ELSE (IF cfg.pert_order + 1 <= MaxOrder
                   THEN {Accepted(cfg, cfg.pert_order + 1, Z_FUNCTION)} ELSE {})
    [] name = "Connect_Equal_time_G1_and_Two_time_G2" ->
         {[cfg EXCEPT !.space = IF cfg.space = Equal_time_G1 THEN Two_time_G2
                                ELSE Equal_time_G1]}
    [] OTHER -> {}

\* one worm updater of the loop body, with the adjust_worm_space_weight call
\* that follows it (the worm mover has none)
WormUpdate ==
  /\ pc = "worm"
  /\ LET name == WormStages[loc.stage + 1] IN
     \E i_worm \in IF name = "ins_rem" THEN IWorm(par.worm_types, mc_config.space)
                    ELSE {0} :
       /\ IF WormStageApplies(name, mc_config.space)
            THEN /\ \E c \in WormOutcomes(name, mc_config, i_worm) : mc_config' = c
                 /\ IF name = "mover"
                      THEN UNCHANGED << flat_histogram, config_space_extra_weight,
                                        worm_space_extra_weight_map >>
                      ELSE ApplyAdjust(mc_config'.space)
            ELSE UNCHANGED << mc_config, flat_histogram, config_space_extra_weight,
                              worm_space_extra_weight_map >>
       /\ IF loc.stage + 1 < Len(WormStages)
            THEN loc' = [loc EXCEPT !.stage = @ + 1, !.i_worm = i_worm]
            ELSE IF loc.update + 1 < FLAVORS
              THEN loc' = [loc EXCEPT !.stage = 0, !.update = @ + 1]
              ELSE loc' = [loc EXCEPT !.stage = 0, !.update = 0]
  /\ IF loc.stage + 1 < Len(WormStages)
       THEN pc' = "worm"
       ELSE IF loc.update + 1 < FLAVORS
         THEN pc' = "worm"
         ELSE pc' = IF loc.ret = "sweep" THEN "advance" ELSE "global_swap"
  /\ unchecked_updates' = (unchecked_updates \/ WormStageApplies(WormStages[loc.stage + 1], mc_config.space))
  /\ UNCHANGED << ctorVars, elapsed, sweeps, thermalized, sliding_window,
                  pert_order_recorder, N_win_standard, min_pert_order_hist,
                  single_op_shift_updater, measVars, iter_log, sweep_calls,
                  gate_elapsed,
                  meas_log >>

\* line 495, the loop condition of line 476 and the exit of do_one_sweep
MoveWindow ==
  /\ pc = "advance"
  /\ sliding_window' = move_window_to_next_position(sliding_window)
  /\ iter_log' = Append(iter_log, "advance")
  /\ sweep_calls' = [sweep_calls EXCEPT !.advance = @ + 1]
  /\ loc' = [loc EXCEPT !.move = @ + 1]
  /\ pc' = IF loc.move + 1 < loc.num_move THEN "local"
           ELSE SanityCheckThen("after_sweep")
  /\ unchecked_updates' = IF loc.move + 1 < loc.num_move THEN unchecked_updates
                           ELSE sanity_check(NDEBUG, unchecked_updates)
  /\ UNCHANGED << ctorVars, elapsed, sweeps, thermalized, mc_config,
                  pert_order_recorder, adaptVars, measVars, gate_elapsed,
                  meas_log >>

\* ------------------------------------------------------------ global_updates()
\* bug variant: global updates follow every sweep
GlobalUpdatesDueAlways(n_sweeps, n_global_updates) == TRUE

\* line 208: global updates follow the sweeps whose number is a multiple of
\* N_GLOBAL_UPDATES
GlobalUpdatesDue(n_sweeps, n_global_updates) == n_sweeps % n_global_updates = 0

\* lines 208-210 and 554-558: the window is collapsed and the worm transitions
\* are called; otherwise update() goes on to line 213
AfterSweep ==
  /\ pc = "after_sweep"
  /\ IF GlobalUpdatesDue(sweeps, par.N_GLOBAL_UPDATES)
       THEN /\ sliding_window' = set_window_size(1, 0, ITIME_LEFT)
            /\ loc' = [loc EXCEPT !.n_sliding_window_bak = sliding_window.n_window,
                                  !.ret = "global", !.itry = 0,
                                  !.execute_ordering = <<>>]
            /\ pc' = "transition"
       ELSE /\ UNCHANGED << sliding_window, loc >>
            /\ pc' = "mc_params"
  /\ UNCHANGED << ctorVars, elapsed, sweeps, thermalized, mc_config,
                  pert_order_recorder, adaptVars, measVars, iter_log, sweep_calls,
                  gate_elapsed, unchecked_updates,
                  meas_log >>

\* bug variant: the ordering is any list of n indices
ExecuteOrderingsAnyList(n) == [1..n -> 1..n]

\* the orderings std::random_shuffle can produce for n updates
ExecuteOrderings(n) ==
  {f \in [1..n -> 1..n] : \A i, j \in 1..n : f[i] = f[j] => i = j}

\* lines 563-592: one flavor-swap update of the shuffled list; the ordering is
\* drawn before the first one
GlobalSwap ==
  /\ pc = "global_swap"
  /\ IF loc.itry < par.N_SWAP
       THEN \E ordering \in IF loc.itry = 0 THEN ExecuteOrderings(par.N_SWAP)
                            ELSE {loc.execute_ordering} :
              /\ swap_acc_rate' = [swap_acc_rate EXCEPT ![ordering[loc.itry + 1]] = @ + 1]
              /\ loc' = [loc EXCEPT !.execute_ordering = ordering, !.itry = @ + 1]
              /\ pc' = SanityCheckThen("global_swap")
       ELSE /\ UNCHANGED << swap_acc_rate, loc >>
            /\ pc' = "global_shift"
  /\ unchecked_updates' = IF loc.itry < par.N_SWAP THEN sanity_check(NDEBUG, TRUE)
                           ELSE unchecked_updates
  /\ UNCHANGED << ctorVars, elapsed, sweeps, thermalized, mc_config, sliding_window,
                  pert_order_recorder, adaptVars, num_steps_in_config_space,
                  g_meas_legendre, measurements, global_shift_acc_rate, finalized,
                  warned, iter_log, sweep_calls, gate_elapsed,
                  meas_log >>

\* lines 595-616: the uniform time shift, accepted or rejected
GlobalShift ==
  /\ pc = "global_shift"
  /\ global_shift_acc_rate' = global_shift_acc_rate + 1
  /\ pc' = SanityCheckThen("global_end")
  /\ unchecked_updates' = sanity_check(NDEBUG, TRUE)
  /\ UNCHANGED << ctorVars, elapsed, sweeps, thermalized, mc_config, sliding_window,
                  pert_order_recorder, adaptVars, num_steps_in_config_space,
                  g_meas_legendre, measurements, swap_acc_rate, finalized, warned,
                  loc, iter_log, sweep_calls, gate_elapsed,
                  meas_log >>

\* lines 618-619: the window size of before the global updates is restored
GlobalReturn ==
  /\ pc = "global_end"
  /\ sliding_window' = set_window_size(loc.n_sliding_window_bak, 0, ITIME_LEFT)
  /\ pc' = SanityCheckThen("mc_params")
  /\ unchecked_updates' = sanity_check(NDEBUG, unchecked_updates)
  /\ UNCHANGED << ctorVars, elapsed, sweeps, thermalized, mc_config,
                  pert_order_recorder, adaptVars, measVars, loc, iter_log,
                  sweep_calls, gate_elapsed,
                  meas_log >>

\* ------------------------------------------------------ update_MC_parameters()
\* length of the moving-average history (line 632)
HistMax == 20

\* lines 631-634: push_back, then pop_front once the list is longer than HistMax
PushHist(hist, sample) ==
  LET h == Append(hist, sample)
  IN IF Len(h) > HistMax THEN Tail(h) ELSE h

HistSum(hist) == SeqSum([i \in 1..Len(hist) |-> hist[i].v])

\* lines 639-648, with min_expansion_order_ave = sum / size
NWinStandard(sum, size, flavors, sliding_window_max) ==
  Max(sliding_window_max, Min(CeilDiv(sum, size * flavors), sliding_window_max))

\* bug variant: the gate opens at equality
ThermalizationGateAtEquality(seconds, therm_time) == 20 * seconds >= therm_time

\* line 658: time(NULL) - start_time > thermalization_time
ThermalizationGate(seconds, therm_time) == 20 * seconds > therm_time

\* bug variant: the parameters are adapted after every sweep
AdaptGateAlways == TRUE

\* line 213
AdaptGate == ~thermalized

\* bug variant: every sweep is measured
MeasureGateAlways == TRUE

\* line 222
MeasureGate == thermalized

UpdateMCParameters ==
  /\ pc = "mc_params"
  /\ AdaptGate
  /\ IF thermalized
       THEN \* lines 624-627: the assertion, or the logic_error of a release build
            /\ pc' = IF NDEBUG THEN "logic_error" ELSE "aborted"
            /\ UNCHANGED << min_pert_order_hist, N_win_standard,
                            single_op_shift_updater, elapsed, gate_elapsed,
                            thermalized, meas_log >>
       ELSE /\ LET hist == PushHist(min_pert_order_hist,
                                    [w |-> walker, v |-> mc_config.pert_order])
               IN /\ min_pert_order_hist' = hist
                  /\ N_win_standard' = NWinStandard(HistSum(hist), Len(hist), FLAVORS,
                                                    par.SLIDING_WINDOW_MAX)
            /\ single_op_shift_updater' =
                 [single_op_shift_updater EXCEPT !.n_update_parameters = @ + 1]
            /\ \E now \in elapsed..MaxTime :
                 /\ elapsed' = now
                 /\ gate_elapsed' = now
                 /\ thermalized' = IF ThermalizationGate(now, thermalization_time)
                                     THEN TRUE ELSE thermalized
            /\ pc' = "measure"
            /\ meas_log' = [meas_log EXCEPT
                              !.therm_sweeps = @ + (IF thermalized' THEN 1 ELSE 0)]
  /\ UNCHANGED << ctorVars, sweeps, mc_config, sliding_window, pert_order_recorder,
                  flat_histogram, config_space_extra_weight,
                  worm_space_extra_weight_map, measVars, loc, iter_log, sweep_calls, unchecked_updates >>

SkipUpdateMCParameters ==
  /\ pc = "mc_params"
  /\ ~AdaptGate
  /\ pc' = "measure"
  /\ meas_log' = [meas_log EXCEPT !.therm_sweeps = @ + (IF thermalized THEN 1 ELSE 0)]
  /\ UNCHANGED << ctorVars, elapsed, sweeps, thermalized, mc_config, sliding_window,
                  pert_order_recorder, adaptVars, measVars, loc, iter_log,
                  sweep_calls, gate_elapsed, unchecked_updates >>

\* -------------------------------------------------------- measure_every_step()
\* bug variant: every space is measured as Z space
StepObservablesAllZ(space) == {"kLkR", "k"}

\* the observables the switch of lines 239-274 writes; {} where it throws
StepObservables(space) ==
  CASE space = Z_FUNCTION -> {"kLkR", "k"}
    [] space = G1 -> {"G1"}
    [] space = Two_time_G2 -> {"Two_time_G2"}
    [] space = Equal_time_G1 -> {"Equal_time_G1"}
    [] space = Equal_time_G2 -> {"Equal_time_G2"}
    [] OTHER -> {}

\* lines 222-224 and 231-232: measure_every_step, sanity_check, next imeas
MeasureEveryStep ==
  /\ pc = "measure"
  /\ MeasureGate
  /\ IF StepObservables(mc_config.space) = {}
       THEN /\ pc' = "error"
            /\ UNCHANGED << num_steps_in_config_space, g_meas_legendre,
                            measurements, loc >>
       ELSE /\ g_meas_legendre' = IF mc_config.space = Z_FUNCTION
                                    THEN g_meas_legendre + 1 ELSE g_meas_legendre
            /\ measurements' = measurements \cup StepObservables(mc_config.space)
            /\ num_steps_in_config_space' =
                 [num_steps_in_config_space EXCEPT
                    ![get_config_space_position(par.worm_types, mc_config.space) + 1] = @ + 1]
            /\ loc' = [loc EXCEPT !.imeas = @ + 1]
            /\ pc' = SanityCheckThen("loop")
  /\ unchecked_updates' = IF StepObservables(mc_config.space) = {} THEN unchecked_updates
                           ELSE sanity_check(NDEBUG, unchecked_updates)
  /\ meas_log' = IF StepObservables(mc_config.space) = {} THEN meas_log
       ELSE [meas_log EXCEPT
               !.calls[get_config_space_position(par.worm_types, mc_config.space) + 1] = @ + 1]
  /\ UNCHANGED << ctorVars, elapsed, sweeps, thermalized, mc_config, sliding_window,
                  pert_order_recorder, adaptVars, global_shift_acc_rate,
                  swap_acc_rate, finalized, warned, iter_log, sweep_calls,
                  gate_elapsed >>

SkipMeasureEveryStep ==
  /\ pc = "measure"
  /\ ~MeasureGate
  /\ loc' = [loc EXCEPT !.imeas = @ + 1]
  /\ pc' = SanityCheckThen("loop")
  /\ unchecked_updates' = sanity_check(NDEBUG, unchecked_updates)
  /\ UNCHANGED << ctorVars, elapsed, sweeps, thermalized, mc_config, sliding_window,
                  pert_order_recorder, adaptVars, measVars, iter_log, sweep_calls,
                  gate_elapsed,
                  meas_log >>

\* ---------------------------------------------------- prepare_for_measurement()
\* the updaters whose finalize_learning is called by lines 669-680
FinalizedByPrepare ==
  {<< "single_op_shift_updater", 0 >>}
  \cup {<< "ins_rem_diagonal_updater", k >> : k \in 1..par.MULTI_PAIR_INS_REM}
  \cup {<< "worm_insertion_removers", w >> : w \in 1..Len(par.worm_types)}
  \cup {<< n, 0 >> : n \in SpecializedUpdaters(par.worm_types)}

\* every updater object the walker owns
OwnedUpdaters ==
  {<< "single_op_shift_updater", 0 >>, << "operator_pair_flavor_updater", 0 >>}
  \cup {<< "ins_rem_updater", k >> : k \in 1..par.MULTI_PAIR_INS_REM}
  \cup {<< "ins_rem_diagonal_updater", k >> : k \in 1..par.MULTI_PAIR_INS_REM}
  \cup {<< "worm_insertion_removers", w >> : w \in 1..Len(par.worm_types)}
  \cup {<< "worm_movers", w >> : w \in 1..Len(par.worm_types)}
  \cup {<< n, 0 >> : n \in SpecializedUpdaters(par.worm_types)}

\* bug variant: the warning is printed whether or not the procedure converged
FlatHistogramWarningAlways(fh) == TRUE

\* line 696: the warning is printed when the procedure has not converged
FlatHistogramWarning(fh) == ~FlatConverged(fh)

\* the scheduler calls prepare_for_measurement once, after the first batch that
\* ends thermalized (lines 667-714)
PrepareForMeasurement ==
  /\ pc = "returned"
  /\ thermalized
  /\ ~single_op_shift_updater.finalized
  /\ g_meas_legendre' = 0
  /\ single_op_shift_updater' = [single_op_shift_updater EXCEPT !.finalized = TRUE]
  /\ finalized' = finalized \cup FinalizedByPrepare
  /\ IF flat_histogram.present
       THEN /\ warned' = IF FlatHistogramWarning(flat_histogram)
                           THEN warned \cup {"flat histogram is not yet obtained"}
                           ELSE warned
            /\ flat_histogram' = FlatFinishLearning(flat_histogram)
       ELSE UNCHANGED << warned, flat_histogram >>
  /\ measurements' = measurements \cup {"Pert_order_start"}
  /\ pc' = "returned"
  /\ UNCHANGED << ctorVars, elapsed, sweeps, thermalized, mc_config, sliding_window,
                  pert_order_recorder, N_win_standard, min_pert_order_hist,
                  config_space_extra_weight, worm_space_extra_weight_map,
                  num_steps_in_config_space, global_shift_acc_rate, swap_acc_rate,
                  loc, iter_log, sweep_calls, gate_elapsed, unchecked_updates,
                  meas_log >>

\* -------------------------------------------------------------------- measure()
\* bug variant: the step count is multiplied by the weight
VolumeMultiplied(steps, ln_w) == Real(steps, ln_w)

\* line 293: num_steps_in_config_space /= config_space_extra_weight
Volume(steps, ln_w) == Real(steps, -ln_w)

\* the observables measure() writes in lines 288-297
VolumeObservables ==
  {"Z_function_space_num_steps", "Z_function_space_volume"}
  \cup {"worm_space_num_steps_" \o par.worm_types[w] : w \in 1..Len(par.worm_types)}
  \cup {"worm_space_volume_" \o par.worm_types[w] : w \in 1..Len(par.worm_types)}

\* the observables measure_Z_function_space() writes (lines 331-401)
ZSpaceObservables ==
  {"order", "PerturbationOrderFlavors", "n", "Sign"}
  \cup (IF global_shift_acc_rate > 0 THEN {"Acceptance_rate_global_shift"} ELSE {})
  \cup (IF Len(swap_acc_rate) > 0 /\ swap_acc_rate[1] > 0
          THEN {"Acceptance_rate_swap"} ELSE {})
  \cup (IF g_meas_legendre > 0 THEN {"Greens_legendre", "Greens_legendre_rotated"}
        ELSE {})

\* the scheduler calls measure() after every batch that ends thermalized
\* (lines 280-328)
Measure ==
  /\ pc = "returned"
  /\ thermalized
  /\ single_op_shift_updater.finalized
  /\ num_steps_in_config_space' = [i \in DOMAIN num_steps_in_config_space |-> 0]
  /\ IF mc_config.space = Z_FUNCTION
       THEN /\ measurements' = measurements \cup VolumeObservables \cup ZSpaceObservables
            /\ global_shift_acc_rate' = 0
            /\ swap_acc_rate' = IF Len(swap_acc_rate) > 0 /\ swap_acc_rate[1] > 0
                                  THEN [i \in DOMAIN swap_acc_rate |-> 0]
                                  ELSE swap_acc_rate
            /\ g_meas_legendre' = 0
       ELSE /\ measurements' = measurements \cup VolumeObservables
            /\ UNCHANGED << global_shift_acc_rate, swap_acc_rate, g_meas_legendre >>
  /\ pc' = "idle"
  /\ meas_log' = [meas_log EXCEPT
       !.calls = [i \in DOMAIN @ |-> 0], !.therm_sweeps = 0, !.n_measure = @ + 1,
       !.calls_reported = meas_log.calls,
       !.therm_sweeps_reported = meas_log.therm_sweeps,
       !.num_steps = num_steps_in_config_space,
       !.volume = [i \in DOMAIN num_steps_in_config_space |->
                     Volume(num_steps_in_config_space[i], config_space_extra_weight[i])]]
  /\ UNCHANGED << ctorVars, elapsed, sweeps, thermalized, mc_config, sliding_window,
                  pert_order_recorder, adaptVars, finalized, warned, loc, iter_log,
                  sweep_calls, gate_elapsed, unchecked_updates >>

\* a batch that ends before thermalization is followed by the next update()
NextBatch ==
  /\ pc = "returned"
  /\ ~thermalized
  /\ pc' = "idle"
  /\ UNCHANGED << ctorVars, elapsed, sweeps, thermalized, mc_config, sliding_window,
                  pert_order_recorder, adaptVars, measVars, loc, iter_log,
                  sweep_calls, gate_elapsed, unchecked_updates,
                  meas_log >>

\* ---------------------------------------------------------------- specification
Next ==
  \/ UpdateEnter
  \/ UpdateReturn
  \/ SweepBegin
  \/ LocalUpdate
  \/ SingleOpShift
  \/ TransitionEnter
  \/ WormUpdate
  \/ MoveWindow
  \/ AfterSweep
  \/ GlobalSwap
  \/ GlobalShift
  \/ GlobalReturn
  \/ UpdateMCParameters
  \/ SkipUpdateMCParameters
  \/ MeasureEveryStep
  \/ SkipMeasureEveryStep
  \/ PrepareForMeasurement
  \/ Measure
  \/ NextBatch

Spec == Init /\ [][Next]_vars

\* ------------------------------------------- several walkers in one process
\* a process that runs the solver again: the walker is destroyed between two
\* batches and a new one is constructed; function-local statics live on
ParamsProcess ==
  [ TIME_LIMIT : {80},
    THERMALIZATION_TIME : {-20},
    SITES : {1},
    SPINS : {1},
    N_MEAS : {1},
    N_GLOBAL_UPDATES : {1},
    MULTI_PAIR_INS_REM : {1},
    SLIDING_WINDOW_MAX : {1},
    N_SWAP : {1},
    worm_types : { <<G1>> } ]

Reconstruct ==
  /\ pc = "idle"
  /\ walker = 1
  /\ \E p \in ParamsProcess : Construct(p, walker + 1)
  /\ UNCHANGED min_pert_order_hist

InitProcess == Init /\ par \in ParamsProcess

NextProcess == Next \/ Reconstruct

SpecProcess == InitProcess /\ [][NextProcess]_vars

\* ------------------------------------------------ CorrelationWorm<NumTimes>
CREATION_OP == "CREATION_OP"

ANNIHILATION_OP == "ANNIHILATION_OP"

\* OperatorTime(time, small_index)
OperatorTime(time, small_index) == [time |-> time, small_index |-> small_index]

\* psi(time, type, flavor)
psi(time, type, flavor) == [time |-> time, type |-> type, flavor |-> flavor]

\* worm.ipp lines 3-21: for each time index it (0-based) the creation operator,
\* then the annihilation operator
RECURSIVE get_operators_from(_, _, _)
get_operators_from(times_, flavors_, it) ==
  IF it >= Len(times_) THEN <<>>
  ELSE << psi(OperatorTime(times_[it + 1], 200 * (it + 1)), CREATION_OP,
              flavors_[2 * it + 1]),
          psi(OperatorTime(times_[it + 1], 100 * (it + 1)), ANNIHILATION_OP,
              flavors_[2 * it + 2]) >>
       \o get_operators_from(times_, flavors_, it + 1)

\* bug variant: the two flavors of each time index are exchanged
get_operators_flavors_exchanged(w) ==
  get_operators_from(w.times_,
                     [k \in 1..Len(w.flavors_) |->
                        w.flavors_[IF k % 2 = 1 THEN k + 1 ELSE k - 1]],
                     0)

get_operators(w) == get_operators_from(w.times_, w.flavors_, 0)

WormFlavors == {0, 1}

\* a worm of NumTimes time points is built with given times and flavors
CorrelationWormConstruct ==
  /\ \E n \in 1..MaxNumTimes :
       \E t \in [1..n -> 0..MaxWormTime], f \in [1..(2 * n) -> WormFlavors] :
         worm' = [times_ |-> t, flavors_ |-> f]
  /\ worm_ops' = <<>>
  /\ UNCHANGED << par, walker, ctor_error, thermalization_time, NDEBUG,
                  ins_rem_updater, ins_rem_diagonal_updater, corrupted, other_run, elapsed,
                  sweeps, thermalized, mc_config, sliding_window, pert_order_recorder,
                  adaptVars, measVars, pc, loc, iter_log, sweep_calls, gate_elapsed,
                  unchecked_updates,
                  meas_log >>

\* one call of get_operators on the worm
GetOperators ==
  /\ worm.times_ # <<>>
  /\ worm_ops' = get_operators(worm)
  /\ UNCHANGED << par, walker, ctor_error, thermalization_time, NDEBUG, worm,
                  ins_rem_updater, ins_rem_diagonal_updater, corrupted, other_run, elapsed,
                  sweeps, thermalized, mc_config, sliding_window, pert_order_recorder,
                  adaptVars, measVars, pc, loc, iter_log, sweep_calls, gate_elapsed,
                  unchecked_updates,
                  meas_log >>

InitWorm == Init /\ par \in ParamsProcess /\ ~NDEBUG

NextWorm == CorrelationWormConstruct \/ GetOperators

SpecWorm == InitWorm /\ [][NextWorm]_vars

\* ------------------------------------- the reweighter under any visit sequence
\* runs with one and with two worm spaces
ParamsFlat ==
  [ TIME_LIMIT : {80},
    THERMALIZATION_TIME : {-20},
    SITES : {1},
    SPINS : {1},
    N_MEAS : {1},
    N_GLOBAL_UPDATES : {1},
    MULTI_PAIR_INS_REM : {1},
    SLIDING_WINDOW_MAX : {1},
    N_SWAP : {1},
    worm_types : { <<G1>>, <<G1, Two_time_G2>> } ]

\* one call of adjust_worm_space_weight with the walker in any of its spaces
AdjustInSpace ==
  /\ SeqSum(flat_histogram.h) < MaxVisits
  /\ \E space \in {Z_FUNCTION} \cup Range(par.worm_types) :
       /\ mc_config' = [mc_config EXCEPT !.space = space]
       /\ ApplyAdjust(space)
  /\ UNCHANGED << ctorVars, elapsed, sweeps, thermalized, sliding_window,
                  pert_order_recorder, N_win_standard, min_pert_order_hist,
                  single_op_shift_updater, measVars, pc, loc, iter_log, sweep_calls,
                  gate_elapsed, unchecked_updates,
                  meas_log >>

InitFlat == (\E p \in ParamsFlat : InitWith(p)) /\ ~NDEBUG

NextFlat == AdjustInSpace

SpecFlat == InitFlat /\ [][NextFlat]_vars

\* --------------------------------------- measure_every_step in every space
\* a configuration space that the switch of measure_every_step has no case for
Unsupported_space == "Unsupported_space"

ParamsMeasure ==
  [ TIME_LIMIT : {80},
    THERMALIZATION_TIME : {-20},
    SITES : {1},
    SPINS : {1},
    N_MEAS : {1},
    N_GLOBAL_UPDATES : {1},
    MULTI_PAIR_INS_REM : {1},
    SLIDING_WINDOW_MAX : {1},
    N_SWAP : {1},
    worm_types : { << G1, Two_time_G2, Equal_time_G1, Equal_time_G2,
                      Unsupported_space >> } ]

\* line 222 is reached by a thermalized walker in any of its spaces
ThermalizedInSpace ==
  /\ pc \in {"idle", "loop"}
  /\ SeqSum(num_steps_in_config_space) < MaxSteps
  /\ thermalized' = TRUE
  /\ \E space \in {Z_FUNCTION} \cup Range(par.worm_types) :
       mc_config' = [mc_config EXCEPT !.space = space]
  /\ pc' = "measure"
  /\ UNCHANGED << ctorVars, elapsed, sweeps, sliding_window, pert_order_recorder,
                  adaptVars, measVars, loc, iter_log, sweep_calls, gate_elapsed,
                  unchecked_updates,
                  meas_log >>

InitMeasure == (\E p \in ParamsMeasure : InitWith(p)) /\ ~NDEBUG

NextMeasure == ThermalizedInSpace \/ MeasureEveryStep

SpecMeasure == InitMeasure /\ [][NextMeasure]_vars

\* ------------------------------------------------- construction of a walker
\* parameter sets with fractional and short time limits and with invalid ranks
ParamsCtor ==
  [ TIME_LIMIT : {0, 10, 30, 50, 80},
    THERMALIZATION_TIME : {-20, 0, 20, 30, 80},
    SITES : {1},
    SPINS : {1},
    N_MEAS : {1},
    N_GLOBAL_UPDATES : {1},
    MULTI_PAIR_INS_REM : {0, 1, 2},
    SLIDING_WINDOW_MAX : {1},
    N_SWAP : {1},
    worm_types : { <<>> } ]
  \cup ParamsProcess

InitCtor == (\E p \in ParamsCtor : InitWith(p)) /\ ~NDEBUG

SpecCtor == InitCtor /\ [][Next]_vars

\* ------------------------------------------- drift of the incremental values
\* an update leaves the incrementally updated determinant or trace away from
\* its from-scratch value (round-off), or the operator string out of order;
\* it happens in an updater call, so after the first one of a sweep
RoundOff ==
  /\ pc \in {"local", "shift", "worm", "global_swap", "global_shift"}
  /\ sweep_calls # NoCalls
  /\ ~corrupted
  /\ corrupted' = TRUE
  /\ UNCHANGED << par, walker, ctor_error, thermalization_time, NDEBUG, wormVars,
                  ins_rem_updater, ins_rem_diagonal_updater, other_run, elapsed, sweeps,
                  thermalized, mc_config, sliding_window, pert_order_recorder,
                  adaptVars, measVars, pc, loc, iter_log, sweep_calls, gate_elapsed,
                  unchecked_updates, meas_log >>

\* ------------------------------------ worm transitions between three spaces
ParamsTransition ==
  [ TIME_LIMIT : {80},
    THERMALIZATION_TIME : {-20},
    SITES : {1},
    SPINS : {1},
    N_MEAS : {1},
    N_GLOBAL_UPDATES : {1},
    MULTI_PAIR_INS_REM : {1},
    SLIDING_WINDOW_MAX : {1},
    N_SWAP : {1},
    worm_types : { <<>>, <<G1, Equal_time_G1, Two_time_G2>> } ]

InitTransition == \E p \in ParamsTransition : InitWith(p)

SpecTransition == InitTransition /\ [][Next]_vars

\* ------------------------------------- global updates with several swaps
ParamsSwap ==
  [ TIME_LIMIT : {80},
    THERMALIZATION_TIME : {-20, 0},
    SITES : {1},
    SPINS : {1},
    N_MEAS : {1, 2},
    N_GLOBAL_UPDATES : {1, 2},
    MULTI_PAIR_INS_REM : {1},
    SLIDING_WINDOW_MAX : {1},
    N_SWAP : {2, 3},
    worm_types : { <<>> } ]
  \cup
  [ TIME_LIMIT : {80},
    THERMALIZATION_TIME : {-20},
    SITES : {1},
    SPINS : {1},
    N_MEAS : {1},
    N_GLOBAL_UPDATES : {1},
    MULTI_PAIR_INS_REM : {1},
    SLIDING_WINDOW_MAX : {1},
    N_SWAP : {2},
    worm_types : { <<G1>> } ]

InitSwap == \E p \in ParamsSwap : InitWith(p)

SpecSwap == InitSwap /\ [][Next]_vars

\* ---------------------------------------- two executions on one random stream
\* The second execution replays a call of update_MC_parameters the first one
\* has made: same parameters, same random numbers, hence the same
\* configuration, but its own reading of time(NULL) at line 658.
OtherRunUpdateMCParameters ==
  /\ ~other_run.thermalized
  /\ other_run.n_update_parameters < single_op_shift_updater.n_update_parameters
  /\ \E now \in other_run.elapsed..MaxTime :
       other_run' = [n_update_parameters |-> other_run.n_update_parameters + 1,
                     elapsed |-> now,
                     thermalized |-> ThermalizationGate(now, thermalization_time)]
  /\ UNCHANGED << par, walker, ctor_error, thermalization_time, NDEBUG, wormVars,
                  ins_rem_updater, ins_rem_diagonal_updater, corrupted, elapsed, sweeps,
                  thermalized, mc_config, sliding_window, pert_order_recorder,
                  adaptVars, measVars, pc, loc, iter_log, sweep_calls, gate_elapsed,
                  unchecked_updates, meas_log >>

InitTwin == Init /\ par \in ParamsProcess

NextTwin == Next \/ OtherRunUpdateMCParameters

SpecTwin == InitTwin /\ [][NextTwin]_vars

InitCorrupt == Init /\ par \in ParamsProcess

NextCorrupt == Next \/ RoundOff

SpecCorrupt == InitCorrupt /\ [][NextCorrupt]_vars

\* ======================================================================= claims
\* positions of update() inside the move loop of do_one_sweep
InMoveLoop ==
  \/ pc \in {"local", "shift", "advance"}
  \/ pc \in {"transition", "worm"} /\ loc.ret = "sweep"

\* the updater calls of one move iteration for F flavors and rank k
ExpectedIteration(flavors, k) ==
  Repeat(<< "off", "diag", "pair" >>, flavors) \o Repeat(<< "shift" >>, flavors * k)
    \o << "worm", "advance" >>

Clip(x, lo, hi) == Max(lo, Min(x, hi))

AllZero(f) == \A i \in DOMAIN f : f[i] = 0

C2_GateAtLeast ==
  gate_elapsed >= 0 => (thermalized <=> 20 * gate_elapsed >= thermalization_time)

\* C2 (amended): after every evaluation of the thermalization gate (made at the
\* end of each sweep while not yet thermalized), thermalized is true exactly
\* when the whole seconds elapsed are strictly greater than thermalization_time.
C2_GateStrictlyGreater ==
  gate_elapsed >= 0 => (thermalized <=> 20 * gate_elapsed > thermalization_time)

\* the gate has been evaluated after the thermalization time and has opened
C2_Witness ==
  /\ thermalized
  /\ thermalization_time > 0
  /\ 20 * gate_elapsed > thermalization_time

\* C3 (as stated): while thermalized is false every per-space step counter and
\* every measurement accumulator of the walker is zero.
C3_AllAccumulatorsZero ==
  ~thermalized =>
    /\ AllZero(num_steps_in_config_space)
    /\ g_meas_legendre = 0
    /\ measurements = {}
    /\ pert_order_recorder = 0
    /\ global_shift_acc_rate = 0
    /\ AllZero(swap_acc_rate)

\* C3 (amended): while thermalized is false, measure_every_step has not run:
\* every per-space step counter is zero, the Legendre accumulator holds no
\* sample and no observable has been written.
C3_StepAccumulatorsZero ==
  ~thermalized =>
    /\ AllZero(num_steps_in_config_space)
    /\ g_meas_legendre = 0
    /\ measurements = {}

\* a sweep and its global updates have been completed before thermalization
C3_Witness ==
  /\ ~thermalized
  /\ pc = "loop"
  /\ sweeps >= 1
  /\ global_shift_acc_rate > 0

\* the adaptive state the sweeps, worm transitions and global updates own
AdaptiveState ==
  << N_win_standard, single_op_shift_updater.n_update_parameters,
     flat_histogram.h, flat_histogram.lambda, flat_histogram.lnw,
     config_space_extra_weight, worm_space_extra_weight_map >>

\* C4: once thermalized is true, no step of a sweep, worm transition or global
\* update modifies N_win_standard, the shift widths, the flat-histogram state,
\* config_space_extra_weight or worm_space_extra_weight_map.
C4_AdaptationFrozen == [][thermalized => AdaptiveState' = AdaptiveState]_vars

\* a sweep with worm transitions has been run by a thermalized walker
C4_Witness ==
  /\ thermalized
  /\ flat_histogram.present
  /\ pc = "after_sweep"

\* C5: once prepare_for_measurement has run, finalize_learning has been called
\* on every updater the walker owns and the flat-histogram reweighter has
\* finished learning.
C5_AllFinalized ==
  single_op_shift_updater.finalized =>
    /\ OwnedUpdaters \subseteq finalized
    /\ flat_histogram.present => flat_histogram.done

\* C6: after every call of update_MC_parameters,
\* N_win_standard = clip(ceil(avg / F), 1, SLIDING_WINDOW_MAX).
C6_WindowClipped ==
  min_pert_order_hist # <<>> =>
    N_win_standard =
      Clip(CeilDiv(HistSum(min_pert_order_hist), Len(min_pert_order_hist) * FLAVORS),
           1, par.SLIDING_WINDOW_MAX)

\* C7: the history averaged by update_MC_parameters holds exactly the last
\* min(n, 20) samples recorded by this walker's n calls, and only those.
C7_HistoryOwned ==
  single_op_shift_updater.n_update_parameters >= 1 =>
    /\ Len(min_pert_order_hist) = Min(single_op_shift_updater.n_update_parameters, HistMax)
    /\ \A i \in 1..Len(min_pert_order_hist) : min_pert_order_hist[i].w = walker

\* C8: throughout the move loop of a sweep of rank k the window has
\* n_window = max(N_win_standard / k, 1), and the loop starts at position 0.
C8_SweepWindowSize ==
  InMoveLoop =>
    /\ loc.rank_ins_rem \in 1..par.MULTI_PAIR_INS_REM
    /\ sliding_window.n_window = Max(N_win_standard \div loc.rank_ins_rem, 1)
    /\ sweep_calls = NoCalls => sliding_window.position_right_edge = 0

\* the move loop runs with a window that was resized to two segments
C8_Witness ==
  /\ pc = "advance"
  /\ loc.move = 2
  /\ sliding_window.n_window = 2
  /\ N_win_standard = 2

\* C9: when a sweep returns it has made num_move = max(4*n_window - 4, 1)
\* window advances and worm transitions, num_move*F calls of each of the
\* off-diagonal, diagonal and pair-flavor updaters and num_move*F*k shifts.
C9_SweepCallCounts ==
  pc = "after_sweep" =>
    LET num_move == Max(4 * sliding_window.n_window - 4, 1) IN
    sweep_calls = [off |-> num_move * FLAVORS,
                   diag |-> num_move * FLAVORS,
                   pair |-> num_move * FLAVORS,
                   shift |-> num_move * FLAVORS * loc.rank_ins_rem,
                   worm |-> num_move,
                   advance |-> num_move]

\* a sweep of rank 2 over two flavors has returned
C9_Witness ==
  /\ pc = "after_sweep"
  /\ loc.rank_ins_rem = 2
  /\ FLAVORS = 2
  /\ sweep_calls.shift = 4

\* C10: the calls of a move iteration come in the order F times (off-diagonal,
\* diagonal, pair-flavor), then F*k shifts, then the worm transition, then one
\* window advance.
C10_IterationOrder ==
  (InMoveLoop \/ pc = "after_sweep") =>
    /\ IsPrefix(iter_log, ExpectedIteration(FLAVORS, loc.rank_ins_rem))
    /\ pc = "advance" =>
         Append(iter_log, "advance") = ExpectedIteration(FLAVORS, loc.rank_ins_rem)
    /\ pc = "after_sweep" => iter_log = ExpectedIteration(FLAVORS, loc.rank_ins_rem)

\* a move iteration of rank 2 over two flavors is complete but for the advance
C10_Witness ==
  /\ pc = "advance"
  /\ loc.rank_ins_rem = 2
  /\ FLAVORS = 2
  /\ Len(iter_log) = 11

\* positions of update() inside global_updates
InGlobalUpdates ==
  \/ pc \in {"global_swap", "global_shift", "global_end"}
  \/ pc \in {"transition", "worm"} /\ loc.ret = "global"

\* C11: global_updates runs after sweep number s iff s mod N_GLOBAL_UPDATES = 0;
\* inside it every global move and worm transition sees n_window = 1, and when
\* it has returned n_window is the window size of the sweep again, with the
\* right edge at position 0.
C11_GlobalUpdatesWindow ==
  /\ InGlobalUpdates =>
       /\ sweeps % par.N_GLOBAL_UPDATES = 0
       /\ sliding_window.n_window = 1
       /\ sliding_window.position_right_edge = 0
  /\ pc = "mc_params" =>
       /\ loc.ret = "global" <=> sweeps % par.N_GLOBAL_UPDATES = 0
       /\ sliding_window.n_window = loc.current_n_window
       /\ sliding_window.position_right_edge = 0

\* global updates have returned after a sweep with a window of two segments,
\* with samples of the swap and of the shift recorded
C11_Witness ==
  /\ pc = "mc_params"
  /\ loc.ret = "global"
  /\ sliding_window.n_window = 2
  /\ global_shift_acc_rate > 0
  /\ Len(swap_acc_rate) > 0 /\ swap_acc_rate[1] > 0

\* C12: the agreement of the current-space tag with the worm is enforced by
\* sanity_check after the updates of a sweep: when a sweep of update() is
\* complete, a sanity check has been executed after its last updater call.
C12_EnforcedBySanityCheck ==
  pc \in {"loop", "returned", "idle"} => ~unchecked_updates

\* the lexicographic order on (time, tie_breaker)
OperatorTimeLess(a, b) ==
  \/ a.time < b.time
  \/ a.time = b.time /\ a.small_index < b.small_index

\* C13: the operators returned by get_operators have pairwise distinct
\* (time, tie_breaker), so that any two of them are strictly ordered, whatever
\* the times of the worm (two of its time points may coincide).
C13_DistinctOperatorTimes ==
  \A i, j \in 1..Len(worm_ops) :
    i # j => \/ OperatorTimeLess(worm_ops[i].time, worm_ops[j].time)
             \/ OperatorTimeLess(worm_ops[j].time, worm_ops[i].time)

\* C14: the weight of Z space is 1 (logarithm 0) in every state, and for every
\* worm space s >= 1 both config_space_extra_weight[s] and
\* worm_space_extra_weight_map[worm_types[s-1]] equal the ratio w[s]/w[0] of
\* the reweighter.
C14_ZWeightFixed ==
  /\ config_space_extra_weight[1] = 0
  /\ \A s \in 1..Len(par.worm_types) :
       /\ config_space_extra_weight[s + 1] = FlatWeightRatio(flat_histogram, s, 0)
       /\ worm_space_extra_weight_map[par.worm_types[s]] =
            FlatWeightRatio(flat_histogram, s, 0)

\* the reweighter has visited both spaces and the weight of the worm space
\* differs from 1
C14_Witness ==
  /\ flat_histogram.present
  /\ flat_histogram.lnw[1] > 0
  /\ flat_histogram.lnw[2] > 0
  /\ config_space_extra_weight[2] # 0

\* a step that makes one call of adjust_worm_space_weight (lines 517, 523, 532,
\* 541) before thermalization
AdjustCall ==
  /\ pc = "worm"
  /\ flat_histogram.present
  /\ ~thermalized
  /\ WormStages[loc.stage + 1] # "mover"
  /\ WormStageApplies(WormStages[loc.stage + 1], mc_config.space)

\* C15: during thermalization each adjust_worm_space_weight call records one
\* visit of the current space (index 0 for Z, i + 1 for worm_types[i]); then,
\* iff min(h) >= f * mean(h), lambda is reduced and h is reset; otherwise
\* lambda stays; no other step changes h or lambda, and lambda never increases.
C15_VisitThenFlatness ==
  [][ /\ flat_histogram'.lambda <= flat_histogram.lambda
      /\ IF AdjustCall
           THEN LET s == mc_config'.space
                    idx == IF s = Z_FUNCTION THEN 1
                           ELSE 1 + CHOOSE i \in 1..Len(par.worm_types) :
                                      par.worm_types[i] = s
                    visited == [flat_histogram.h EXCEPT ![idx] = @ + 1]
                    n == Len(visited)
                IN IF \A i \in 1..n : 2 * n * visited[i] >= SeqSum(visited)
                     THEN /\ flat_histogram'.lambda = flat_histogram.lambda \div 2
                          /\ AllZero(flat_histogram'.h)
                     ELSE /\ flat_histogram'.lambda = flat_histogram.lambda
                          /\ flat_histogram'.h = visited
           ELSE /\ flat_histogram'.lambda = flat_histogram.lambda
                /\ flat_histogram'.h = flat_histogram.h ]_vars

\* before thermalization, visits of the worm space have been recorded since
\* lambda was last reduced
C15_Witness ==
  /\ ~thermalized
  /\ flat_histogram.present
  /\ flat_histogram.lambda < FlatLambdaInit
  /\ flat_histogram.h[2] >= 2
  /\ flat_histogram.h[1] = 0

C17_WarningAndFreeze ==
  /\ [](IF single_op_shift_updater.finalized /\ flat_histogram.present
          THEN /\ flat_histogram.done
               /\ "flat histogram is not yet obtained" \in warned
                    <=> flat_histogram.lambda >= FlatLambdaMin
          ELSE "flat histogram is not yet obtained" \notin warned)
  /\ [][ thermalized =>
           /\ config_space_extra_weight' = config_space_extra_weight
           /\ worm_space_extra_weight_map' = worm_space_extra_weight_map
           /\ flat_histogram'.lnw = flat_histogram.lnw ]_vars

\* a worm transition of a later sweep runs after the warning was printed, with
\* a weight of the worm space that differs from 1
C17_Witness ==
  /\ "flat histogram is not yet obtained" \in warned
  /\ flat_histogram.done
  /\ pc = "worm"
  /\ config_space_extra_weight[2] # 0

\* |x|
Abs(x) == IF x >= 0 THEN x ELSE -x

C19_Routing ==
  [][ (pc = "measure" /\ thermalized) =>
        LET s == mc_config.space
            idx == IF s = Z_FUNCTION THEN 1
                   ELSE 1 + CHOOSE i \in 1..Len(par.worm_types) : par.worm_types[i] = s
            own == IF s = Z_FUNCTION THEN {"kLkR", "k"} ELSE {s}
        IN IF s \in {Z_FUNCTION, G1, Two_time_G2, Equal_time_G1, Equal_time_G2}
             THEN /\ pc' # "error"
                  /\ measurements' = measurements \cup own
                  /\ g_meas_legendre' =
                       g_meas_legendre + (IF s = Z_FUNCTION THEN 1 ELSE 0)
                  /\ num_steps_in_config_space' =
                       [num_steps_in_config_space EXCEPT ![idx] = @ + 1]
             ELSE /\ pc' = "error"
                  /\ measurements' = measurements
                  /\ g_meas_legendre' = g_meas_legendre
                  /\ num_steps_in_config_space' = num_steps_in_config_space ]_vars

\* the error has been raised after steps were measured in Z space and in the
\* equal-time G2 space
C19_Witness ==
  /\ pc = "error"
  /\ Len(num_steps_in_config_space) = 6
  /\ num_steps_in_config_space[1] = 1
  /\ num_steps_in_config_space[5] = 1
  /\ measurements = {"kLkR", "k", "Equal_time_G2"}

\* C20: at each measure() call the reported step count of space s is the number
\* of measure_every_step calls made in space s since the previous measure(),
\* the reported volume is that count divided by w[s], the counts sum to the
\* number of thermalized sweeps since the previous measure(), and every counter
\* is zero when measure() returns.
C20_StepCountsAndVolumes ==
  /\ meas_log.n_measure >= 1 =>
       /\ meas_log.num_steps = meas_log.calls_reported
       /\ \A i \in DOMAIN meas_log.volume :
            /\ meas_log.volume[i].m = meas_log.calls_reported[i]
            /\ meas_log.calls_reported[i] > 0 =>
                 meas_log.volume[i].e + config_space_extra_weight[i] = 0
       /\ SeqSum(meas_log.num_steps) = meas_log.therm_sweeps_reported
  /\ (pc = "idle" /\ meas_log.n_measure >= 1) => AllZero(num_steps_in_config_space)

\* measure() has reported a step made in the worm space, whose weight
\* differs from 1
C20_Witness ==
  /\ meas_log.n_measure >= 1
  /\ Len(meas_log.num_steps) = 2
  /\ meas_log.num_steps[2] >= 1
  /\ config_space_extra_weight[2] # 0

\* C21: at construction a negative THERMALIZATION_TIME is replaced by
\* 0.25 * TIME_LIMIT, construction fails on the time limit iff the resulting
\* thermalization time exceeds 0.9 * TIME_LIMIT, and a constructed walker has
\* 0 <= thermalization_time <= 0.9 * TIME_LIMIT.
C21_DefaultAndLimit ==
  /\ par.THERMALIZATION_TIME < 0 => 4 * thermalization_time = par.TIME_LIMIT
  /\ par.THERMALIZATION_TIME >= 0 => thermalization_time = par.THERMALIZATION_TIME
  /\ ctor_error = "time_limit" <=> 10 * thermalization_time > 9 * par.TIME_LIMIT
  /\ ctor_error = "none" =>
       /\ 0 <= thermalization_time
       /\ 10 * thermalization_time <= 9 * par.TIME_LIMIT

\* C22: construction with UPDATE.MULTI_PAIR_INS_REM = k < 1 fails, so that no
\* sweep ever runs with an empty list of insertion/removal updaters; for k >= 1
\* exactly the updaters of ranks 1..k are created, off-diagonal and diagonal,
\* and every sweep draws its rank among them.
C22_RankChecked ==
  /\ par.MULTI_PAIR_INS_REM < 1 =>
       /\ ctor_error # "none"
       /\ pc = "no_walker"
       /\ sweeps = 0
  /\ ctor_error = "none" =>
       /\ par.MULTI_PAIR_INS_REM >= 1
       /\ ins_rem_updater = [k \in 1..par.MULTI_PAIR_INS_REM |-> k]
       /\ ins_rem_diagonal_updater = [k \in 1..par.MULTI_PAIR_INS_REM |-> k]
  /\ ctor_error # "none" =>
       /\ pc = "no_walker"
       /\ ins_rem_updater = <<>>
       /\ ins_rem_diagonal_updater = <<>>
  /\ InMoveLoop => loc.rank_ins_rem \in 1..Len(ins_rem_updater)

\* construction with rank 0 and a valid thermalization time has failed
C22_Witness ==
  /\ par.MULTI_PAIR_INS_REM < 1
  /\ 10 * thermalization_time <= 9 * par.TIME_LIMIT
  /\ ctor_error = "rank"
  /\ pc = "no_walker"

\* C23: in a debug build sanity_check aborts on an invariant violation and in
\* a release build it forces a from-scratch rebuild, so that in both builds no
\* sweep starts from a corrupted state.
C23_NoSweepFromCorrupted ==
  (pc = "local" /\ sweep_calls = NoCalls) => ~corrupted

\* C24: two executions of a walker on the same parameters and random numbers
\* that have made the same number of update_MC_parameters calls agree on
\* whether the walker is thermalized, whatever their clocks read.
C24_SameThermalizationSweep ==
  other_run.n_update_parameters = single_op_shift_updater.n_update_parameters
    => other_run.thermalized = thermalized

\* statistics recorded so far by the flavor swaps
SwapSamples(rate) == SeqSum(rate)

C26_MeasureBetweenUpdates ==
  [][ meas_log'.calls # meas_log.calls =>
        /\ ~InMoveLoop
        /\ ~InGlobalUpdates
        /\ sweep_calls.advance = loc.num_move
        /\ GlobalUpdatesDue(sweeps, par.N_GLOBAL_UPDATES) =>
              /\ loc.ret = "global"
              /\ loc.itry = par.N_SWAP
              /\ sliding_window.n_window = loc.n_sliding_window_bak
        /\ sliding_window.position_right_edge = 0
        /\ sliding_window.n_window = loc.current_n_window ]_vars

\* a measurement has been taken after global updates that followed a sweep
\* with a window of two segments
C26_Witness ==
  /\ pc = "loop"
  /\ SeqSum(meas_log.calls) >= 1
  /\ loc.ret = "global"
  /\ loc.itry >= 1
  /\ sliding_window.n_window = 2

\* the spaces in which a worm updater of the loop body may be applied
ConnectedSpaces(name) ==
  CASE name = "ins_rem" -> {Z_FUNCTION} \cup Range(par.worm_types)
    [] name = "G1_ins_rem_hyb" -> {Z_FUNCTION, G1}
    [] name = "Connect_Equal_time_G1_and_Two_time_G2" -> {Equal_time_G1, Two_time_G2}
    [] name = "G1_shifter_hyb" -> {G1}
    [] name = "mover" -> Range(par.worm_types)

\* C27: in every step of the worm loop the updater of the stage acts only when
\* the space current at that step is one it connects (otherwise configuration,
\* weights and reweighter stay as they are); the insertion/remover applied in
\* worm space s has index position(s) - 1 >= 0 and leads to Z_FUNCTION only,
\* the one applied in Z_FUNCTION has an index drawn from all of them and leads
\* to its own space only; the space changes only between spaces the stage's
\* updater connects; with no worm types the loop is never entered and the
\* transition step changes neither configuration nor weights.
C27_WormUpdatersInTheirSpaces ==
  [][ /\ pc = "worm" =>
           LET name == WormStages[loc.stage + 1]
               s == mc_config.space
               t == mc_config'.space
           IN /\ par.worm_types # <<>>
              /\ s \notin ConnectedSpaces(name) =>
                    /\ mc_config' = mc_config
                    /\ flat_histogram' = flat_histogram
                    /\ config_space_extra_weight' = config_space_extra_weight
                    /\ worm_space_extra_weight_map' = worm_space_extra_weight_map
                    /\ unchecked_updates' = unchecked_updates
              /\ name = "ins_rem" =>
                    /\ loc'.i_worm \in 0..(Len(par.worm_types) - 1)
                    /\ s # Z_FUNCTION =>
                          /\ loc'.i_worm = get_config_space_position(par.worm_types, s) - 1
                          /\ t \in {s, Z_FUNCTION}
                    /\ s = Z_FUNCTION => t \in {s, par.worm_types[loc'.i_worm + 1]}
              /\ (name # "ins_rem" /\ t # s) =>
                    /\ {s, t} \subseteq ConnectedSpaces(name)
                    /\ name \notin {"G1_shifter_hyb", "mover"}
      /\ (pc = "transition" /\ par.worm_types = <<>>) =>
           /\ pc' # "worm"
           /\ mc_config' = mc_config
           /\ flat_histogram' = flat_histogram
           /\ config_space_extra_weight' = config_space_extra_weight
           /\ worm_space_extra_weight_map' = worm_space_extra_weight_map ]_vars

\* in the first loop iteration of the first transition call the walker went
\* from Z_FUNCTION to Equal_time_G1 by the insertion/remover of index 1 and
\* on to Two_time_G2 by the connecting updater: the guard of that updater was
\* evaluated on the space the previous sub-step left
C27_Witness ==
  /\ pc = "worm"
  /\ sweeps = 1
  /\ sweep_calls.worm = 1
  /\ loc.ret = "sweep"
  /\ loc.update = 0
  /\ loc.stage = 3
  /\ mc_config.space = Two_time_G2
  /\ flat_histogram.h = << 0, 0, 1, 1 >>

\* the swaps attempted so far in the running global_updates call
Attempted ==
  IF pc \in {"global_swap", "global_shift", "global_end"}
    THEN {loc.execute_ordering[j] : j \in 1..loc.itry}
    ELSE {}

\* C28: the execute_ordering of a global_updates call is a permutation of the
\* configured swaps; while the call runs, the swaps attempted so far have one
\* sample more than before the call and the others none more; when the swaps
\* are done every one has been attempted, and after the shift every swap
\* statistic and the shift statistic have gained exactly one sample, so that
\* between calls all of them hold the same number of samples.
C28_OneSamplePerCall ==
  /\ (pc \in {"global_shift", "global_end"} \/ (pc = "global_swap" /\ loc.itry > 0)) =>
       /\ Len(loc.execute_ordering) = par.N_SWAP
       /\ Range(loc.execute_ordering) = 1..par.N_SWAP
  /\ pc \in {"global_shift", "global_end"} => Attempted = 1..par.N_SWAP
  /\ \A i \in 1..par.N_SWAP :
       swap_acc_rate[i] =
         global_shift_acc_rate
           + (IF i \in Attempted THEN 1 ELSE 0)
           - (IF pc = "global_end" THEN 1 ELSE 0)

\* the second of three swaps of a call has been attempted, in an order that is
\* not the configured one, after an earlier call was completed
C28_Witness ==
  /\ pc = "global_swap"
  /\ par.N_SWAP = 3
  /\ loc.itry = 2
  /\ loc.execute_ordering = << 3, 1, 2 >>
  /\ swap_acc_rate = << 2, 1, 2 >>
  /\ global_shift_acc_rate = 1

\* has_samples() of an acceptance-rate counter
has_samples(rate) == rate > 0

\* C29: outside a running global_updates call, and so whenever measure() and
\* with it measure_Z_function_space can be entered, either every
\* swap_acc_rate entry has samples or none has: if swap_acc_rate[0] has
\* samples, the assertion of line 368 holds for every entry.
C29_AssertionHolds ==
  ~InGlobalUpdates =>
    \/ \A i \in 1..par.N_SWAP : has_samples(swap_acc_rate[i])
    \/ \A i \in 1..par.N_SWAP : ~has_samples(swap_acc_rate[i])

\* measure() is about to run in Z_FUNCTION with samples of three swaps, after
\* an earlier measure() had reset them
C29_Witness ==
  /\ pc = "returned"
  /\ thermalized
  /\ single_op_shift_updater.finalized
  /\ mc_config.space = Z_FUNCTION
  /\ par.N_SWAP = 3
  /\ \A i \in 1..par.N_SWAP : has_samples(swap_acc_rate[i])
  /\ meas_log.n_measure >= 1

\* C30: every step in which measure_every_step runs is taken after
\* prepare_for_measurement has run for this walker (learning is finalized).
C30_MeasuredAfterPrepare ==
  [][ meas_log'.calls # meas_log.calls => single_op_shift_updater.finalized ]_vars

\* C31: thermalized is false at construction; every step keeps it true once it
\* is true; it changes only in a step of update_MC_parameters; that function
\* is called only while thermalized is false, so neither its assertion nor
\* its logic_error is reached.
C31_ThermalizedMonotone ==
  /\ ~thermalized
  /\ [][ /\ thermalized => thermalized'
         /\ thermalized' # thermalized =>
              /\ pc = "mc_params"
              /\ single_op_shift_updater'.n_update_parameters =
                   single_op_shift_updater.n_update_parameters + 1
         /\ single_op_shift_updater'.n_update_parameters #
              single_op_shift_updater.n_update_parameters => ~thermalized
         /\ pc = "mc_params" => pc' \notin {"logic_error", "aborted"} ]_vars

\* a thermalized walker has finished a later sweep without calling
\* update_MC_parameters again
C31_Witness ==
  /\ thermalized
  /\ pc = "measure"
  /\ sweeps >= 2
  /\ single_op_shift_updater.n_update_parameters < sweeps

\* C32: get_operators returns 2 * NumTimes operators, NumTimes of them
\* creations and NumTimes annihilations; for each time index it returns the
\* creation operator of flavor flavors_[2 it] and the annihilation operator of
\* flavor flavors_[2 it + 1], both at times_[it], the creation operator being
\* the later of the two in the (time, tie_breaker) order.
C32_OperatorsOfWorm ==
  worm_ops # <<>> =>
    LET n == Len(worm.times_) IN
    /\ Len(worm_ops) = 2 * n
    /\ Cardinality({k \in 1..Len(worm_ops) : worm_ops[k].type = CREATION_OP}) = n
    /\ Cardinality({k \in 1..Len(worm_ops) : worm_ops[k].type = ANNIHILATION_OP}) = n
    /\ \A it \in 0..(n - 1) :
         LET c == worm_ops[2 * it + 1]
             a == worm_ops[2 * it + 2]
         IN /\ c.type = CREATION_OP
            /\ c.flavor = worm.flavors_[2 * it + 1]
            /\ c.time.time = worm.times_[it + 1]
            /\ a.type = ANNIHILATION_OP
            /\ a.flavor = worm.flavors_[2 * it + 2]
            /\ a.time.time = worm.times_[it + 1]
            /\ OperatorTimeLess(a.time, c.time)

\* get_operators has run on a worm of two time points whose two flavors
\* differ at each time point
C32_Witness ==
  /\ Len(worm_ops) = 4
  /\ worm.flavors_[1] # worm.flavors_[2]
  /\ worm.flavors_[3] # worm.flavors_[4]
  /\ worm.times_[1] # worm.times_[2]

====
